---------------------------- MODULE Spec2Model ----------------------------
(***************************************************************************)
(* A model of crates/runtime/src/memfd.rs: the MemFdRegistry (a mutex      *)
(* guarded map from CompiledModuleId to a shared ModuleMemFds) and the     *)
(* image builder build_memfds.                                             *)
(*                                                                         *)
(* Numbers.  segment.offset and the page bases are u64 (they are handed   *)
(* to write_at unchanged), usize is taken to be 64 bits wide, and a        *)
(* memory's minimum is a 64-bit page count.  A 64-bit value is a tuple of  *)
(* four 16-bit limbs, least significant first, so that checked_add, the    *)
(* unchecked additions and the unchecked multiplication by WASM_PAGE_SIZE  *)
(* keep their width.                                                       *)
(*                                                                         *)
(* Indices are 0-based as in the source: a Vec or PrimaryMap of n entries  *)
(* is a function on 0..n-1.                                                *)
(***************************************************************************)
EXTENDS Integers, Sequences, FiniteSets, TLC

(***************************************************************************)
(* Bounds of the model.                                                    *)
(***************************************************************************)
NumThreads == 2
NumIds == 2
MaxCalls == 3
MaxSegments == 2
MaxPageEntries == 1

(***************************************************************************)
(* Program constants.                                                      *)
(***************************************************************************)
WASM_PAGE_SIZE == 65536
MAX_MEMFD_IMAGE_SIZE == 1024 * 1024 * 1024
page_size == 4096

(***************************************************************************)
(* Option<T>.                                                              *)
(***************************************************************************)
None == [some |-> FALSE]
Some(x) == [some |-> TRUE, val |-> x]

(***************************************************************************)
(* 64-bit unsigned arithmetic on limbs.  Limb is the limb base; it equals  *)
(* WASM_PAGE_SIZE, which makes the multiplication at line 113 a shift by   *)
(* one limb.                                                               *)
(***************************************************************************)
Limb == WASM_PAGE_SIZE
Zero == <<0, 0, 0, 0>>
\* A number below 2^31 as a 64-bit value.
W(n) == <<n % Limb, n \div Limb, 0, 0>>
\* a + b: the low 64 bits and the carry out of bit 63.
AddCarry(a, b) ==
    LET s1 == a[1] + b[1]
        s2 == a[2] + b[2] + (s1 \div Limb)
        s3 == a[3] + b[3] + (s2 \div Limb)
        s4 == a[4] + b[4] + (s3 \div Limb)
    IN  [val |-> <<s1 % Limb, s2 % Limb, s3 % Limb, s4 % Limb>>,
         carry |-> s4 \div Limb # 0]
\* a - b for b <= a.
Sub(a, b) ==
    LET d1 == a[1] - b[1]
        d2 == a[2] - b[2] - (IF d1 < 0 THEN 1 ELSE 0)
        d3 == a[3] - b[3] - (IF d2 < 0 THEN 1 ELSE 0)
        d4 == a[4] - b[4] - (IF d3 < 0 THEN 1 ELSE 0)
    IN  <<d1 % Limb, d2 % Limb, d3 % Limb, d4 % Limb>>
Lt(a, b) ==
    \/ a[4] < b[4]
    \/ a[4] = b[4] /\ a[3] < b[3]
    \/ a[4] = b[4] /\ a[3] = b[3] /\ a[2] < b[2]
    \/ a[4] = b[4] /\ a[3] = b[3] /\ a[2] = b[2] /\ a[1] < b[1]
Gt(a, b) == Lt(b, a)
Le(a, b) == ~Lt(b, a)
\* std::cmp::max
max(a, b) == IF Lt(a, b) THEN b ELSE a
\* usize::checked_add
checked_add(a, b) ==
    LET r == AddCarry(a, b) IN IF r.carry THEN None ELSE Some(r.val)
\* (min_pages as usize) * WASM_PAGE_SIZE as usize: the low 64 bits and
\* whether the product overflowed.
MulPageSize(p) == [val |-> <<0, p[1], p[2], p[3]>>, overflow |-> p[4] # 0]
\* A value above i64::MAX: set_len and write_at refuse it.
AboveI64Max(a) == a[4] >= Limb \div 2

\* Mutant of RoundUpToPage: the size is rounded down.
RoundDownToPage(size) ==
    [val |-> <<size[1] - (size[1] % page_size), size[2], size[3], size[4]>>,
     overflow |-> FALSE]

\* (size + page_size - 1) & !(page_size - 1): the low 64 bits and whether
\* the addition overflowed.
RoundUpToPage(size) ==
    LET r == AddCarry(size, W(page_size - 1))
    IN  [val |-> <<r.val[1] - (r.val[1] % page_size), r.val[2], r.val[3], r.val[4]>>,
         overflow |-> r.carry]

(***************************************************************************)
(* Vec and PrimaryMap: functions on 0..n-1.                                *)
(***************************************************************************)
VecLen(v) == Cardinality(DOMAIN v)
VecPush(v, x) == [i \in 0..VecLen(v) |-> IF i < VecLen(v) THEN v[i] ELSE x]
VecOf(n, x) == [i \in 0..(n - 1) |-> x]

(***************************************************************************)
(* The module layout read by the builder.  A Module is                     *)
(*   [num_imported_memories, memory_plans, memory_initialization]          *)
(* with memory_plans a Vec of [memory |-> [minimum |-> pages]] over all    *)
(* memories,                                                               *)
(* imported ones first, and memory_initialization either                   *)
(*   [kind |-> "Segmented", segments |-> Vec of                            *)
(*        [memory_index, base (Option), offset, data (a Range)]]  or       *)
(*   [kind |-> "Paged", map |-> Vec over the defined memories of           *)
(*        Vec of [base, range]].                                           *)
(* A Range is [start, end] into wasm_data.                                 *)
(***************************************************************************)
RangeLen(r) == W(r.end - r.start)

\* Module::defined_memory_index: None for an imported memory.
defined_memory_index(module, memory_index) ==
    IF memory_index < module.num_imported_memories
    THEN None
    ELSE Some(memory_index - module.num_imported_memories)

num_defined_memories(module) ==
    VecLen(module.memory_plans) - module.num_imported_memories

(***************************************************************************)
(* build_memfds, first pass (lines 82-138): the image size of each defined *)
(* memory.  The pass works on locals only; it is one step.  Its state is   *)
(* [sizes, excluded_memories, segments_per_memory, panicked]; panicked is  *)
(* set where an unchecked operation overflows in a build with overflow     *)
(* checks, and without them the operation wraps.                           *)
(***************************************************************************)
SizesInit(module) ==
    [sizes |-> VecOf(num_defined_memories(module), Zero),
     excluded_memories |-> {},
     segments_per_memory |-> VecOf(num_defined_memories(module), << >>),
     panicked |-> FALSE]

Exclude(st, defined_memory) ==
    [st EXCEPT !.excluded_memories = @ \cup {defined_memory}]

\* Mutant of SegmentStep: the hard cap of lines 118-121 is not applied.
SegmentStepNoCap(module, checks, st, i) ==
    LET segment == module.memory_initialization.segments[i]
        dm == defined_memory_index(module, segment.memory_index)
        defined_memory == dm.val
        top == checked_add(segment.offset, RangeLen(segment.data))
        min_pages == module.memory_plans[segment.memory_index].memory.minimum
        min_bytes == MulPageSize(min_pages)
    IN  IF st.panicked \/ ~dm.some THEN st
        ELSE IF segment.base.some THEN Exclude(st, defined_memory)
        ELSE IF ~top.some THEN Exclude(st, defined_memory)
        ELSE IF min_bytes.overflow /\ checks THEN [st EXCEPT !.panicked = TRUE]
        ELSE IF Gt(top.val, min_bytes.val) THEN Exclude(st, defined_memory)
        ELSE [st EXCEPT
                !.sizes[defined_memory] = max(@, top.val),
                !.segments_per_memory[defined_memory] = VecPush(@, i)]

\* Mutant of SegmentStep: the minimum-size test of line 113 is >= for >.
SegmentStepGe(module, checks, st, i) ==
    LET segment == module.memory_initialization.segments[i]
        dm == defined_memory_index(module, segment.memory_index)
        defined_memory == dm.val
        top == checked_add(segment.offset, RangeLen(segment.data))
        min_pages == module.memory_plans[segment.memory_index].memory.minimum
        min_bytes == MulPageSize(min_pages)
    IN  IF st.panicked \/ ~dm.some THEN st
        ELSE IF segment.base.some THEN Exclude(st, defined_memory)
        ELSE IF ~top.some THEN Exclude(st, defined_memory)
        ELSE IF min_bytes.overflow /\ checks THEN [st EXCEPT !.panicked = TRUE]
        ELSE IF Le(min_bytes.val, top.val) THEN Exclude(st, defined_memory)
        ELSE IF Gt(top.val, W(MAX_MEMFD_IMAGE_SIZE)) THEN Exclude(st, defined_memory)
        ELSE [st EXCEPT
                !.sizes[defined_memory] = max(@, top.val),
                !.segments_per_memory[defined_memory] = VecPush(@, i)]

\* Mutant of SegmentStep: a segment of an imported memory is not skipped but
\* taken for defined memory 0.
SegmentStepNoSkip(module, checks, st, i) ==
    LET segment == module.memory_initialization.segments[i]
        dm == defined_memory_index(module, segment.memory_index)
        defined_memory == IF dm.some THEN dm.val ELSE 0
        top == checked_add(segment.offset, RangeLen(segment.data))
        min_pages == module.memory_plans[segment.memory_index].memory.minimum
        min_bytes == MulPageSize(min_pages)
    IN  IF st.panicked \/ num_defined_memories(module) = 0 THEN st
        ELSE IF segment.base.some THEN Exclude(st, defined_memory)
        ELSE IF ~top.some THEN Exclude(st, defined_memory)
        ELSE IF min_bytes.overflow /\ checks THEN [st EXCEPT !.panicked = TRUE]
        ELSE IF Gt(top.val, min_bytes.val) THEN Exclude(st, defined_memory)
        ELSE IF Gt(top.val, W(MAX_MEMFD_IMAGE_SIZE)) THEN Exclude(st, defined_memory)
        ELSE [st EXCEPT
                !.sizes[defined_memory] = max(@, top.val),
                !.segments_per_memory[defined_memory] = VecPush(@, i)]

\* One iteration of the loop over the segments (lines 97-126).
SegmentStep(module, checks, st, i) ==
    LET segment == module.memory_initialization.segments[i]
        dm == defined_memory_index(module, segment.memory_index)
        defined_memory == dm.val
        top == checked_add(segment.offset, RangeLen(segment.data))
        min_pages == module.memory_plans[segment.memory_index].memory.minimum
        min_bytes == MulPageSize(min_pages)
    IN  IF st.panicked \/ ~dm.some THEN st
        ELSE IF segment.base.some THEN Exclude(st, defined_memory)
        ELSE IF ~top.some THEN Exclude(st, defined_memory)
        ELSE IF min_bytes.overflow /\ checks THEN [st EXCEPT !.panicked = TRUE]
        ELSE IF Gt(top.val, min_bytes.val) THEN Exclude(st, defined_memory)
        ELSE IF Gt(top.val, W(MAX_MEMFD_IMAGE_SIZE)) THEN Exclude(st, defined_memory)
        ELSE [st EXCEPT
                !.sizes[defined_memory] = max(@, top.val),
                !.segments_per_memory[defined_memory] = VecPush(@, i)]

RECURSIVE SegmentsLoop(_, _, _, _)
SegmentsLoop(module, checks, st, i) ==
    IF i = VecLen(module.memory_initialization.segments)
    THEN st
    ELSE SegmentsLoop(module, checks, SegmentStep(module, checks, st, i), i + 1)

\* base + range.len() of one page entry (line 132).
PageTop(entry) == AddCarry(entry.base, RangeLen(entry.range))

RECURSIVE MaxTop(_, _)
\* .max().unwrap_or(0) over the first n page entries.
MaxTop(pages, n) ==
    IF n = 0 THEN Zero
    ELSE max(MaxTop(pages, n - 1), PageTop(pages[n - 1]).val)

\* The loop over the page map (lines 129-136).
PagedSizes(module, checks, st) ==
    LET map == module.memory_initialization.map
        overflows == \E dm \in DOMAIN map : \E k \in DOMAIN map[dm] :
                        PageTop(map[dm][k]).carry
    IN  IF overflows /\ checks
        THEN [st EXCEPT !.panicked = TRUE]
        ELSE [st EXCEPT !.sizes =
                [dm \in DOMAIN st.sizes |-> MaxTop(map[dm], VecLen(map[dm]))]]

ComputeSizes(module, checks) ==
    IF module.memory_initialization.kind = "Segmented"
    THEN SegmentsLoop(module, checks, SizesInit(module), 0)
    ELSE PagedSizes(module, checks, SizesInit(module))

(***************************************************************************)
(* Conditions on a layout, stated in exact arithmetic and not on the       *)
(* locals of the first pass: what the properties of the builder are        *)
(* measured against.                                                       *)
(***************************************************************************)
\* The minimum page count of a defined memory.
MinPagesOf(module, defined_memory) ==
    module.memory_plans[defined_memory + module.num_imported_memories].memory.minimum
\* end > pages * 65536 and end = pages * 65536, the product taken exactly.
ExceedsPages(end, pages) ==
    LET hi == <<end[2], end[3], end[4], 0>>
    IN  Gt(hi, pages) \/ (hi = pages /\ end[1] > 0)
EqualsPages(end, pages) == end[1] = 0 /\ <<end[2], end[3], end[4], 0>> = pages

\* The segments of a Segmented layout that target defined_memory.
Targeting(module, defined_memory) ==
    {i \in DOMAIN module.memory_initialization.segments :
        module.memory_initialization.segments[i].memory_index
            = defined_memory + module.num_imported_memories}
\* offset + length of a segment: the low 64 bits and the carry.
SegmentEnd(segment) == AddCarry(segment.offset, RangeLen(segment.data))
\* The initializers of defined_memory under either strategy, each as
\* [dynamic, end]: whether its base is dynamic, and base + length.
Initializers(module, defined_memory) ==
    IF module.memory_initialization.kind = "Segmented"
    THEN {[dynamic |-> module.memory_initialization.segments[i].base.some,
           end |-> SegmentEnd(module.memory_initialization.segments[i])] :
            i \in Targeting(module, defined_memory)}
    ELSE {[dynamic |-> FALSE, end |-> PageTop(e)] :
            e \in {module.memory_initialization.map[defined_memory][k] :
                    k \in DOMAIN module.memory_initialization.map[defined_memory]}}

\* The four conditions of exclusion, for one initializer.
IsDynamic(init) == init.dynamic
Overflows(init) == ~init.dynamic /\ init.end.carry
ExceedsMinimum(init, pages) ==
    ~init.dynamic /\ ~init.end.carry /\ ExceedsPages(init.end.val, pages)
ExceedsCap(init) ==
    ~init.dynamic /\ ~init.end.carry /\ Gt(init.end.val, W(MAX_MEMFD_IMAGE_SIZE))
Offends(init, pages) ==
    IsDynamic(init) \/ Overflows(init) \/ ExceedsMinimum(init, pages) \/ ExceedsCap(init)
\* At least one of the four conditions holds of the memory.
Offended(module, defined_memory) ==
    \E init \in Initializers(module, defined_memory) :
        Offends(init, MinPagesOf(module, defined_memory))
\* The required size of the memory is zero: it has no initializer that ends
\* above offset 0.
ZeroRequired(module, defined_memory) ==
    \A init \in Initializers(module, defined_memory) :
        (~init.dynamic /\ ~init.end.carry) => init.end.val = Zero
\* An initializer lies within pages * 65536 bytes.
WithinPages(init, pages) ==
    IF init.end.carry
    THEN init.end.val = Zero /\ pages = <<0, 0, 0, 1>>
    ELSE ~ExceedsPages(init.end.val, pages)
\* pages * 65536 fits in 64 bits.
MinimumFits(module, defined_memory) == MinPagesOf(module, defined_memory)[4] = 0

(***************************************************************************)
(* wasm_data: the raw blob.  Only its length and the byte at each position *)
(* matter; the byte at position i is DataAt(i), never zero.                *)
(***************************************************************************)
DataAt(i) == (i % 255) + 1

(***************************************************************************)
(* State.                                                                  *)
(***************************************************************************)
Threads == 1..NumThreads
Ids == 1..NumIds

VARIABLES
    overflow_checks,  \* whether the build panics on arithmetic overflow
    modules,          \* the Module (layout) compiled under each id
    memfds,           \* MemFdRegistry.memfds: id -> handle of an Arc<ModuleMemFds>
    lock,             \* the Mutex around memfds: 0 when free, else its holder
    pc,               \* each thread's position in get_or_create
    local,            \* each thread's locals
    arcs,             \* live Arc<ModuleMemFds>: handle -> [memories, strong]
    files,            \* open memfds: <<handle, defined_memory>> -> [len, data, seals]
    returned,         \* history: <<id, handle>> of every Ok a call returned
    failed,           \* history: <<id, calls>> at every Err a call returned
    calls             \* number of get_or_create calls started

vars == <<overflow_checks, modules, memfds, lock, pc, local, arcs, files,
          returned, failed, calls>>

IdleLocal ==
    [id |-> 0, h |-> 0, st |-> None, memories |-> << >>, cur |-> 0,
     size |-> Zero, w |-> 0, memfds |-> None, result |-> None]

Ok(h) == [ok |-> TRUE, h |-> h]
Err == [ok |-> FALSE]

\* The memfds a build has open: those of the handle it builds under.
FilesOf(h) == {f \in DOMAIN files : f[1] = h}
CloseFilesOf(h) == [f \in DOMAIN files \ FilesOf(h) |-> files[f]]
\* Remove handle h from a map.
Without(map, h) == [x \in DOMAIN map \ {h} |-> map[x]]

(***************************************************************************)
(* get_or_create, lines 52-62: the first lookup.                           *)
(***************************************************************************)
\* A caller enters get_or_create(id, module, wasm_data).
Call(t, id) ==
    /\ pc[t] = "idle"
    /\ calls < MaxCalls
    /\ calls' = calls + 1
    /\ local' = [local EXCEPT ![t] = [IdleLocal EXCEPT !.id = id, !.h = calls + 1]]
    /\ pc' = [pc EXCEPT ![t] = "lookup_lock"]
    /\ UNCHANGED <<overflow_checks, modules, memfds, lock, arcs, files, returned, failed>>

\* self.memfds.lock() at line 60 or line 69.
Lock(t) ==
    /\ pc[t] \in {"lookup_lock", "entry_lock"}
    /\ lock = 0
    /\ lock' = t
    /\ pc' = [pc EXCEPT ![t] = IF pc[t] = "lookup_lock" THEN "lookup" ELSE "entry"]
    /\ UNCHANGED <<overflow_checks, modules, memfds, local, arcs, files, returned, failed, calls>>

\* Mutant of Lookup: the lookup reports a miss although the id has an entry.
LookupAlwaysMiss(t) ==
    /\ pc[t] = "lookup"
    /\ pc' = [pc EXCEPT ![t] = "miss_unlock"]
    /\ UNCHANGED <<overflow_checks, modules, memfds, lock, local, arcs, files,
                   returned, failed, calls>>

\* Mutant of Lookup: an id whose build has failed before is answered with
\* an error, without a new build.
LookupCachedFailure(t) ==
    /\ pc[t] = "lookup"
    /\ IF local[t].id \in DOMAIN memfds
       THEN /\ arcs' = [arcs EXCEPT ![memfds[local[t].id]].strong = @ + 1]
            /\ local' = [local EXCEPT ![t].result = Some(Ok(memfds[local[t].id]))]
            /\ pc' = [pc EXCEPT ![t] = "hit_return"]
            /\ UNCHANGED lock
       ELSE IF \E f \in failed : f[1] = local[t].id
       THEN /\ local' = [local EXCEPT ![t].result = Some(Err)]
            /\ pc' = [pc EXCEPT ![t] = "returned"]
            /\ lock' = 0
            /\ UNCHANGED arcs
       ELSE /\ pc' = [pc EXCEPT ![t] = "miss_unlock"]
            /\ UNCHANGED <<arcs, local, lock>>
    /\ UNCHANGED <<overflow_checks, modules, memfds, files, returned, failed, calls>>

\* .get(&id) at line 60 and, when it is Some, the clone at line 61.
Lookup(t) ==
    /\ pc[t] = "lookup"
    /\ IF local[t].id \in DOMAIN memfds
       THEN /\ arcs' = [arcs EXCEPT ![memfds[local[t].id]].strong = @ + 1]
            /\ local' = [local EXCEPT ![t].result = Some(Ok(memfds[local[t].id]))]
            /\ pc' = [pc EXCEPT ![t] = "hit_return"]
       ELSE /\ pc' = [pc EXCEPT ![t] = "miss_unlock"]
            /\ UNCHANGED <<arcs, local>>
    /\ UNCHANGED <<overflow_checks, modules, memfds, lock, files, returned, failed, calls>>

\* Mutant of MissUnlock: the guard of line 60 is kept across build_memfds.
MissKeepLock(t) ==
    /\ pc[t] = "miss_unlock"
    /\ pc' = [pc EXCEPT ![t] = "build_sizes"]
    /\ UNCHANGED <<overflow_checks, modules, memfds, lock, local, arcs, files,
                   returned, failed, calls>>

\* The guard of line 60 is dropped at the end of the if-let; build_memfds is
\* entered without the lock.
MissUnlock(t) ==
    /\ pc[t] = "miss_unlock"
    /\ lock' = 0
    /\ pc' = [pc EXCEPT ![t] = "build_sizes"]
    /\ UNCHANGED <<overflow_checks, modules, memfds, local, arcs, files, returned, failed, calls>>

\* Mutant of Return: the guard is not dropped on return.
ReturnKeepLock(t) ==
    /\ pc[t] \in {"hit_return", "vacant_return", "occupied_return"}
    /\ returned' = returned \cup {<<local[t].id, local[t].result.val.h>>}
    /\ pc' = [pc EXCEPT ![t] = "returned"]
    /\ UNCHANGED <<overflow_checks, modules, memfds, lock, local, arcs, files, failed, calls>>

\* A return of Ok from under the lock (lines 61, 72, 76): the guard is dropped
\* and the caller gets the handle.
Return(t) ==
    /\ pc[t] \in {"hit_return", "vacant_return", "occupied_return"}
    /\ lock' = 0
    /\ returned' = returned \cup {<<local[t].id, local[t].result.val.h>>}
    /\ pc' = [pc EXCEPT ![t] = "returned"]
    /\ UNCHANGED <<overflow_checks, modules, memfds, local, arcs, files, failed, calls>>

(***************************************************************************)
(* build_memfds, lines 81-198, run by thread t without the lock.           *)
(***************************************************************************)
\* Mutant of FailWith: the error is swallowed and the memories built so far
\* go on to the insert as a ModuleMemFds.
FailKeepsPartial(t) ==
    /\ files' = files
    /\ arcs' = (local[t].h :> [memories |-> local[t].memories, strong |-> 1]) @@ arcs
    /\ local' = [local EXCEPT ![t] =
                    [IdleLocal EXCEPT !.id = local[t].id, !.h = local[t].h,
                                      !.memfds = Some(local[t].h)]]
    /\ pc' = [pc EXCEPT ![t] = "entry_lock"]
    /\ UNCHANGED failed

\* What a `?` on an Err does: build_memfds drops its locals, which closes
\* every memfd it has created, and get_or_create returns the error (line 68).
FailWith(t) ==
    /\ files' = CloseFilesOf(local[t].h)
    /\ UNCHANGED arcs
    /\ local' = [local EXCEPT ![t] =
                    [IdleLocal EXCEPT !.id = local[t].id, !.h = local[t].h,
                                      !.result = Some(Err)]]
    /\ pc' = [pc EXCEPT ![t] = "returned"]
    /\ failed' = failed \cup {<<local[t].id, calls>>}

\* An overflow panic: the thread unwinds, dropping the locals, and never
\* returns from get_or_create.
PanicWith(t) ==
    /\ files' = CloseFilesOf(local[t].h)
    /\ UNCHANGED arcs
    /\ local' = [local EXCEPT ![t] =
                    [IdleLocal EXCEPT !.id = local[t].id, !.h = local[t].h]]
    /\ pc' = [pc EXCEPT ![t] = "panicked"]
    /\ UNCHANGED failed

\* Lines 82-138: the first pass.
BuildSizes(t) ==
    /\ pc[t] = "build_sizes"
    /\ LET st == ComputeSizes(modules[local[t].id], overflow_checks)
       IN  IF st.panicked
           THEN PanicWith(t)
           ELSE /\ local' = [local EXCEPT ![t].st = Some(st), ![t].cur = 0]
                /\ pc' = [pc EXCEPT ![t] = "next_memory"]
                /\ UNCHANGED <<files, arcs, failed>>
    /\ UNCHANGED <<overflow_checks, modules, memfds, lock, returned, calls>>

\* Mutant of Writes: the write pass goes through the initializers last to
\* first.
WritesReversed(module, st, defined_memory) ==
    IF module.memory_initialization.kind = "Segmented"
    THEN LET segments == module.memory_initialization.segments
             recorded == st.segments_per_memory[defined_memory]
         IN  [k \in DOMAIN recorded |->
                [base |-> segments[recorded[VecLen(recorded) - 1 - k]].offset,
                 range |-> segments[recorded[VecLen(recorded) - 1 - k]].data]]
    ELSE [k \in DOMAIN module.memory_initialization.map[defined_memory] |->
            module.memory_initialization.map[defined_memory]
                [VecLen(module.memory_initialization.map[defined_memory]) - 1 - k]]

\* The initializers the write pass puts into defined_memory, in the order of
\* lines 168-183: [base, range] of each recorded segment or of each page entry.
Writes(module, st, defined_memory) ==
    IF module.memory_initialization.kind = "Segmented"
    THEN LET segments == module.memory_initialization.segments
             recorded == st.segments_per_memory[defined_memory]
         IN  [k \in DOMAIN recorded |->
                [base |-> segments[recorded[k]].offset,
                 range |-> segments[recorded[k]].data]]
    ELSE module.memory_initialization.map[defined_memory]

\* Mutant of NextMemory: a memory that is skipped gets no entry (line 147
\* after the tests of lines 148-153).
NextMemoryNoPush(t) ==
    /\ pc[t] = "next_memory"
    /\ local[t].cur < VecLen(local[t].st.val.sizes)
    /\ LET st == local[t].st.val
           defined_memory == local[t].cur
           skip == \/ defined_memory \in st.excluded_memories
                   \/ st.sizes[defined_memory] = Zero
       IN  /\ local' = [local EXCEPT
                          ![t].memories = IF skip THEN @ ELSE VecPush(@, None),
                          ![t].cur = IF skip THEN @ + 1 ELSE @]
           /\ pc' = [pc EXCEPT ![t] = IF skip THEN "next_memory" ELSE "create"]
    /\ UNCHANGED <<overflow_checks, modules, memfds, lock, arcs, files, returned, failed, calls>>

\* Mutant of NextMemory: a size of zero is not skipped (lines 151-153).
NextMemoryNoZeroSkip(t) ==
    /\ pc[t] = "next_memory"
    /\ local[t].cur < VecLen(local[t].st.val.sizes)
    /\ LET st == local[t].st.val
           defined_memory == local[t].cur
           skip == defined_memory \in st.excluded_memories
       IN  /\ local' = [local EXCEPT
                          ![t].memories = VecPush(@, None),
                          ![t].cur = IF skip THEN @ + 1 ELSE @]
           /\ pc' = [pc EXCEPT ![t] = IF skip THEN "next_memory" ELSE "create"]
    /\ UNCHANGED <<overflow_checks, modules, memfds, lock, arcs, files, returned, failed, calls>>

\* Lines 146-153: the head of the loop over sizes, for one more memory.
NextMemory(t) ==
    /\ pc[t] = "next_memory"
    /\ local[t].cur < VecLen(local[t].st.val.sizes)
    /\ LET st == local[t].st.val
           defined_memory == local[t].cur
           skip == \/ defined_memory \in st.excluded_memories
                   \/ st.sizes[defined_memory] = Zero
       IN  /\ local' = [local EXCEPT
                          ![t].memories = VecPush(@, None),
                          ![t].cur = IF skip THEN @ + 1 ELSE @]
           /\ pc' = [pc EXCEPT ![t] = IF skip THEN "next_memory" ELSE "create"]
    /\ UNCHANGED <<overflow_checks, modules, memfds, lock, arcs, files, returned, failed, calls>>

\* Lines 158-160: MemfdOptions::create.
Create(t) ==
    /\ pc[t] = "create"
    /\ \E ok \in BOOLEAN :
         IF ok
         THEN /\ files' = (<<local[t].h, local[t].cur>> :>
                              [len |-> Zero, data |-> << >>, seals |-> {}]) @@ files
              /\ pc' = [pc EXCEPT ![t] = "set_len"]
              /\ UNCHANGED <<local, arcs, failed>>
         ELSE FailWith(t)
    /\ UNCHANGED <<overflow_checks, modules, memfds, lock, returned, calls>>

\* Whether the kernel lets a file be resized to size.
CanResize(file, size) ==
    /\ ~AboveI64Max(size)
    /\ Gt(size, file.len) => "SealGrow" \notin file.seals
    /\ Lt(size, file.len) => "SealShrink" \notin file.seals

\* Lines 163-165: round the size up and file.set_len.
SetLen(t) ==
    /\ pc[t] = "set_len"
    /\ LET f == <<local[t].h, local[t].cur>>
           rounded == RoundUpToPage(local[t].st.val.sizes[local[t].cur])
           size == rounded.val
           todo == Writes(modules[local[t].id], local[t].st.val, local[t].cur)
       IN  IF rounded.overflow /\ overflow_checks
           THEN PanicWith(t)
           ELSE \E ok \in BOOLEAN :
                  IF ok /\ CanResize(files[f], size)
                  THEN /\ files' = [files EXCEPT ![f].len = size]
                       /\ local' = [local EXCEPT ![t].size = size, ![t].w = 0]
                       /\ pc' = [pc EXCEPT ![t] =
                                   IF VecLen(todo) = 0 THEN "seal_grow" ELSE "write"]
                       /\ UNCHANGED <<arcs, failed>>
                  ELSE FailWith(t)
    /\ UNCHANGED <<overflow_checks, modules, memfds, lock, returned, calls>>

\* The byte counts write_at may report for a buffer of len bytes: all of it
\* or, for a short write, part of it.
WriteCounts(len) == {len} \cup (IF len >= 2 THEN {len \div 2} ELSE {})

\* Whether the kernel lets count bytes be written at base.
CanWrite(file, base, count) ==
    /\ ~AboveI64Max(base)
    /\ "SealWrite" \notin file.seals
    /\ Gt(AddCarry(base, W(count)).val, file.len) => "SealGrow" \notin file.seals

\* The file after count bytes of wasm_data[range.start..] are written at base.
WriteAt(file, base, range, count) ==
    [file EXCEPT
        !.len = max(@, AddCarry(base, W(count)).val),
        !.data = VecPush(@, [base |-> base, start |-> range.start,
                             end |-> range.start + count])]

\* Lines 170-175 and 178-181: one file.write_at of the write pass.  The count
\* write_at returns is not looked at.
Write(t) ==
    /\ pc[t] = "write"
    /\ LET f == <<local[t].h, local[t].cur>>
           todo == Writes(modules[local[t].id], local[t].st.val, local[t].cur)
           init == todo[local[t].w]
           len == init.range.end - init.range.start
       IN  \E ok \in BOOLEAN : \E count \in WriteCounts(len) :
             IF ok /\ CanWrite(files[f], init.base, count)
             THEN /\ files' = [files EXCEPT ![f] = WriteAt(@, init.base, init.range, count)]
                  /\ local' = [local EXCEPT ![t].w = @ + 1]
                  /\ pc' = [pc EXCEPT ![t] =
                              IF local[t].w + 1 = VecLen(todo) THEN "seal_grow" ELSE "write"]
                  /\ UNCHANGED <<arcs, failed>>
             ELSE FailWith(t)
    /\ UNCHANGED <<overflow_checks, modules, memfds, lock, returned, calls>>

\* Mutant of SealOf: SealShrink is applied before SealGrow.
SealOfSwapped(label) ==
    CASE label = "seal_grow" -> "SealShrink"
      [] label = "seal_shrink" -> "SealGrow"
      [] label = "seal_write" -> "SealWrite"
      [] label = "seal_seal" -> "SealSeal"

\* Lines 186-189: the four add_seal calls, in this order.
SealOf(label) ==
    CASE label = "seal_grow" -> "SealGrow"
      [] label = "seal_shrink" -> "SealShrink"
      [] label = "seal_write" -> "SealWrite"
      [] label = "seal_seal" -> "SealSeal"
AfterSeal(label) ==
    CASE label = "seal_grow" -> "seal_shrink"
      [] label = "seal_shrink" -> "seal_write"
      [] label = "seal_write" -> "seal_seal"
      [] label = "seal_seal" -> "store"

AddSeal(t) ==
    /\ pc[t] \in {"seal_grow", "seal_shrink", "seal_write", "seal_seal"}
    /\ LET f == <<local[t].h, local[t].cur>>
       IN  \E ok \in BOOLEAN :
             IF ok /\ "SealSeal" \notin files[f].seals
             THEN /\ files' = [files EXCEPT ![f].seals = @ \cup {SealOf(pc[t])}]
                  /\ pc' = [pc EXCEPT ![t] = AfterSeal(pc[t])]
                  /\ UNCHANGED <<local, arcs, failed>>
             ELSE FailWith(t)
    /\ UNCHANGED <<overflow_checks, modules, memfds, lock, returned, calls>>

\* Lines 191-194: the image takes its place in memories.
Store(t) ==
    /\ pc[t] = "store"
    /\ local' = [local EXCEPT
                   ![t].memories[local[t].cur] =
                        Some([fd |-> <<local[t].h, local[t].cur>>, len |-> local[t].size]),
                   ![t].cur = @ + 1,
                   ![t].size = Zero,
                   ![t].w = 0]
    /\ pc' = [pc EXCEPT ![t] = "next_memory"]
    /\ UNCHANGED <<overflow_checks, modules, memfds, lock, arcs, files, returned, failed, calls>>

\* Line 197: Ok(Arc::new(ModuleMemFds { memories })), bound to memfds at
\* line 68.
Finish(t) ==
    /\ pc[t] = "next_memory"
    /\ local[t].cur = VecLen(local[t].st.val.sizes)
    /\ arcs' = (local[t].h :> [memories |-> local[t].memories, strong |-> 1]) @@ arcs
    /\ local' = [local EXCEPT ![t] =
                    [IdleLocal EXCEPT !.id = local[t].id, !.h = local[t].h,
                                      !.memfds = Some(local[t].h)]]
    /\ pc' = [pc EXCEPT ![t] = "entry_lock"]
    /\ UNCHANGED <<overflow_checks, modules, memfds, lock, files, returned, failed, calls>>

(***************************************************************************)
(* get_or_create, lines 69-78: the insert.  The guard taken at line 69 is  *)
(* a temporary of the match's scrutinee: it lives to the end of the match, *)
(* so both arms run with the lock held.                                    *)
(***************************************************************************)
\* Dropping one reference to the Arc<ModuleMemFds> h: the last one drops the
\* ModuleMemFds, which closes its memfds.
ArcsAfterDrop(h) ==
    IF arcs[h].strong = 1 THEN Without(arcs, h)
    ELSE [arcs EXCEPT ![h].strong = @ - 1]
FilesAfterDrop(h) ==
    IF arcs[h].strong = 1 THEN CloseFilesOf(h) ELSE files

\* Mutant of Entry: an occupied slot is overwritten with the set just built
\* (HashMap::insert in place of the entry API).
EntryOverwrite(t) ==
    /\ pc[t] = "entry"
    /\ LET id == local[t].id
           built == local[t].memfds.val
           cloned == [arcs EXCEPT ![built].strong = @ + 1]
       IN  /\ memfds' = (id :> built) @@ memfds
           /\ arcs' = IF id \notin DOMAIN memfds THEN cloned
                      ELSE IF cloned[memfds[id]].strong = 1 THEN Without(cloned, memfds[id])
                      ELSE [cloned EXCEPT ![memfds[id]].strong = @ - 1]
           /\ files' = IF id \in DOMAIN memfds /\ arcs[memfds[id]].strong = 1
                       THEN CloseFilesOf(memfds[id]) ELSE files
           /\ local' = [local EXCEPT ![t].result = Some(Ok(built))]
           /\ pc' = [pc EXCEPT ![t] = "vacant_return"]
    /\ UNCHANGED <<overflow_checks, modules, lock, returned, failed, calls>>

\* Mutant of Entry: on an occupied slot the caller returns the set it built
\* itself.
EntryReturnOwn(t) ==
    /\ pc[t] = "entry"
    /\ LET id == local[t].id
           built == local[t].memfds.val
       IN  /\ memfds' = IF id \in DOMAIN memfds THEN memfds ELSE (id :> built) @@ memfds
           /\ arcs' = IF id \in DOMAIN memfds THEN arcs
                      ELSE [arcs EXCEPT ![built].strong = @ + 1]
           /\ local' = [local EXCEPT ![t].result = Some(Ok(built))]
           /\ pc' = [pc EXCEPT ![t] = "vacant_return"]
    /\ UNCHANGED <<overflow_checks, modules, lock, files, returned, failed, calls>>

\* .entry(id) at line 69 and, for Entry::Vacant, lines 71-72.
Entry(t) ==
    /\ pc[t] = "entry"
    /\ LET id == local[t].id
           built == local[t].memfds.val
       IN  IF id \notin DOMAIN memfds
           THEN /\ memfds' = (id :> built) @@ memfds
                /\ arcs' = [arcs EXCEPT ![built].strong = @ + 1]
                /\ local' = [local EXCEPT ![t].result = Some(Ok(built))]
                /\ pc' = [pc EXCEPT ![t] = "vacant_return"]
           ELSE /\ pc' = [pc EXCEPT ![t] = "occupied_drop"]
                /\ UNCHANGED <<memfds, arcs, local>>
    /\ UNCHANGED <<overflow_checks, modules, lock, files, returned, failed, calls>>

\* Mutant of OccupiedDrop: the set just built is forgotten, not dropped.
OccupiedForget(t) ==
    /\ pc[t] = "occupied_drop"
    /\ pc' = [pc EXCEPT ![t] = "occupied_clone"]
    /\ UNCHANGED <<overflow_checks, modules, memfds, lock, local, arcs, files,
                   returned, failed, calls>>

\* Line 75: drop(memfds).
OccupiedDrop(t) ==
    /\ pc[t] = "occupied_drop"
    /\ arcs' = ArcsAfterDrop(local[t].memfds.val)
    /\ files' = FilesAfterDrop(local[t].memfds.val)
    /\ pc' = [pc EXCEPT ![t] = "occupied_clone"]
    /\ UNCHANGED <<overflow_checks, modules, memfds, lock, local, returned, failed, calls>>

\* Line 76: Ok(o.get().clone()).
OccupiedClone(t) ==
    /\ pc[t] = "occupied_clone"
    /\ arcs' = [arcs EXCEPT ![memfds[local[t].id]].strong = @ + 1]
    /\ local' = [local EXCEPT ![t].result = Some(Ok(memfds[local[t].id]))]
    /\ pc' = [pc EXCEPT ![t] = "occupied_return"]
    /\ UNCHANGED <<overflow_checks, modules, memfds, lock, files, returned, failed, calls>>

\* The caller is done with what the call returned: it drops the handle of an
\* Ok, and may call again.
DropResult(t) ==
    /\ pc[t] = "returned"
    /\ IF local[t].result.val.ok
       THEN /\ arcs' = ArcsAfterDrop(local[t].result.val.h)
            /\ files' = FilesAfterDrop(local[t].result.val.h)
       ELSE UNCHANGED <<arcs, files>>
    /\ local' = [local EXCEPT ![t] = IdleLocal]
    /\ pc' = [pc EXCEPT ![t] = "idle"]
    /\ UNCHANGED <<overflow_checks, modules, memfds, lock, returned, failed, calls>>

(***************************************************************************)
(* The layouts the model is run on.                                        *)
(***************************************************************************)
Segment(memory_index, base, offset, data) ==
    [memory_index |-> memory_index, base |-> base, offset |-> offset, data |-> data]
Range(start, end) == [start |-> start, end |-> end]
Segmented(segments) == [kind |-> "Segmented", segments |-> segments]
Paged(map) == [kind |-> "Paged", map |-> map]
Plan(minimum) == [memory |-> [minimum |-> minimum]]
\* The Vec holding the elements of a sequence.
Vec(seq) == [i \in 0..(Len(seq) - 1) |-> seq[i + 1]]
\* All Vecs of at most n elements of S.
VecsUpTo(S, n) == UNION {[0..(k - 1) -> S] : k \in 0..n}

\* 2^48 pages: the largest minimum of a 64-bit memory.
MaxPages64 == <<0, 0, 0, 1>>
\* 2^64 - 1 and 2^64 - 65536.
MaxU64 == <<Limb - 1, Limb - 1, Limb - 1, Limb - 1>>
LastPage == <<0, Limb - 1, Limb - 1, Limb - 1>>

\* The layouts of the registry specification: scenario A of the
\* specification (memory 0 with one constant-offset segment, memory 1 with a
\* dynamic-base segment), a paged layout, a layout whose minimum size in
\* bytes does not fit 64 bits, and a layout with two segments for one memory.
ScenarioA ==
    [num_imported_memories |-> 0,
     memory_plans |-> Vec(<<Plan(W(1)), Plan(W(1))>>),
     memory_initialization |->
        Segmented(Vec(<<Segment(0, None, W(0), Range(0, 2)),
                        Segment(1, Some(0), W(0), Range(2, 3))>>))]
PagedOne ==
    [num_imported_memories |-> 0,
     memory_plans |-> Vec(<<Plan(W(1))>>),
     memory_initialization |-> Paged(Vec(<<Vec(<<[base |-> W(0), range |-> Range(0, 1)]>>)>>))]
TwoSegments ==
    [num_imported_memories |-> 0,
     memory_plans |-> Vec(<<Plan(W(1))>>),
     memory_initialization |->
        Segmented(Vec(<<Segment(0, None, W(0), Range(0, 1)),
                        Segment(0, None, W(WASM_PAGE_SIZE - 1), Range(1, 2))>>))]
HugeMinimum ==
    [num_imported_memories |-> 0,
     memory_plans |-> Vec(<<Plan(MaxPages64)>>),
     memory_initialization |-> Segmented(Vec(<<Segment(0, None, W(0), Range(0, 1))>>))]
RegistryLayouts == <<ScenarioA, PagedOne, HugeMinimum, TwoSegments>>
\* The assignments of layouts to ids: every id has a layout of its own, and
\* every layout is tried under every id.
ModuleAssignments ==
    {[id \in Ids |-> RegistryLayouts[((id + k) % Len(RegistryLayouts)) + 1]] :
        k \in 1..Len(RegistryLayouts)}

\* The layouts of the builder specification: one imported memory and two
\* defined ones (memory indices 0, 1, 2), or no memory at all.
MinPagesChoices == {W(0), W(1), W(16384), W(16385), MaxPages64}
OffsetChoices ==
    {W(0), W(WASM_PAGE_SIZE - 1), W(MAX_MEMFD_IMAGE_SIZE - 1),
     W(MAX_MEMFD_IMAGE_SIZE + WASM_PAGE_SIZE - 1), MaxU64}
RangeChoices == {Range(0, 0), Range(0, 1), Range(0, 2), Range(1, 2)}
SegmentChoices ==
    {Segment(m, None, o, r) : m \in {1}, o \in OffsetChoices, r \in RangeChoices}
    \cup {Segment(m, None, o, Range(0, 1)) : m \in {0, 2}, o \in OffsetChoices}
    \cup {Segment(m, Some(0), W(0), Range(0, 1)) : m \in 0..2}
PageEntryChoices ==
    {[base |-> W(0), range |-> Range(0, 1)],
     [base |-> W(0), range |-> Range(0, WASM_PAGE_SIZE)],
     [base |-> W(MAX_MEMFD_IMAGE_SIZE - WASM_PAGE_SIZE), range |-> Range(0, WASM_PAGE_SIZE)],
     [base |-> W(MAX_MEMFD_IMAGE_SIZE), range |-> Range(0, 1)],
     [base |-> W(MAX_MEMFD_IMAGE_SIZE), range |-> Range(0, WASM_PAGE_SIZE)],
     [base |-> LastPage, range |-> Range(0, WASM_PAGE_SIZE - 1)],
     [base |-> LastPage, range |-> Range(0, WASM_PAGE_SIZE)]}
InitializationChoices ==
    {Segmented(segments) : segments \in VecsUpTo(SegmentChoices, MaxSegments)}
    \cup {Paged(Vec(<<pages0, pages1>>)) :
            pages0 \in VecsUpTo(PageEntryChoices, MaxPageEntries),
            pages1 \in VecsUpTo({[base |-> W(0), range |-> Range(0, 1)]}, 1)}
\* A Paged layout holds only pages that lie within their memory's minimum
\* size: the compiler pages only in-bounds data.
PagesInBounds(module) ==
    module.memory_initialization.kind = "Paged" =>
        \A dm \in DOMAIN module.memory_initialization.map :
            \A init \in Initializers(module, dm) :
                WithinPages(init, MinPagesOf(module, dm))
\* The page map of a memory maps base offsets to ranges: no base twice.
PageBasesDistinct(module) ==
    module.memory_initialization.kind = "Paged" =>
        \A dm \in DOMAIN module.memory_initialization.map :
            \A j, k \in DOMAIN module.memory_initialization.map[dm] :
                j # k => module.memory_initialization.map[dm][j].base
                            # module.memory_initialization.map[dm][k].base
BuildLayouts ==
    {module \in
        {[num_imported_memories |-> 1,
          memory_plans |-> Vec(<<Plan(W(1)), Plan(pages), Plan(W(1))>>),
          memory_initialization |-> init] :
            pages \in MinPagesChoices, init \in InitializationChoices} :
        PagesInBounds(module) /\ PageBasesDistinct(module)}
    \cup {[num_imported_memories |-> imported,
           memory_plans |-> VecOf(imported, Plan(W(1))),
           memory_initialization |-> init] :
            imported \in 0..1, init \in {Segmented(<< >>), Paged(<< >>)}}

(***************************************************************************)
(* The registry specification: NumThreads threads make at most MaxCalls    *)
(* calls of get_or_create on a registry fresh from MemFdRegistry::new.     *)
(***************************************************************************)
Init ==
    /\ overflow_checks \in BOOLEAN
    /\ modules \in ModuleAssignments
    /\ memfds = << >>
    /\ lock = 0
    /\ pc = [t \in Threads |-> "idle"]
    /\ local = [t \in Threads |-> IdleLocal]
    /\ arcs = << >>
    /\ files = << >>
    /\ returned = {}
    /\ failed = {}
    /\ calls = 0

Next ==
    \E t \in Threads :
        \/ \E id \in Ids : Call(t, id)
        \/ Lock(t)
        \/ Lookup(t)
        \/ MissUnlock(t)
        \/ BuildSizes(t)
        \/ NextMemory(t)
        \/ Create(t)
        \/ SetLen(t)
        \/ Write(t)
        \/ AddSeal(t)
        \/ Store(t)
        \/ Finish(t)
        \/ Entry(t)
        \/ OccupiedDrop(t)
        \/ OccupiedClone(t)
        \/ Return(t)
        \/ DropResult(t)

Spec == Init /\ [][Next]_vars

(***************************************************************************)
(* The registry specification under fair scheduling: a thread that is      *)
(* inside get_or_create and can take a step eventually takes one.  Whether *)
(* a thread calls at all, and whether it lets go of what a call returned,  *)
(* is left to it.                                                          *)
(***************************************************************************)
Progress(t) ==
    \/ Lock(t)
    \/ Lookup(t)
    \/ MissUnlock(t)
    \/ BuildSizes(t)
    \/ NextMemory(t)
    \/ Create(t)
    \/ SetLen(t)
    \/ Write(t)
    \/ AddSeal(t)
    \/ Store(t)
    \/ Finish(t)
    \/ Entry(t)
    \/ OccupiedDrop(t)
    \/ OccupiedClone(t)
    \/ Return(t)

\* Id 1 has the layout whose minimum size overflows, every other id the
\* paged layout, whose build calls the host.
InitFair ==
    /\ overflow_checks \in BOOLEAN
    /\ modules = [id \in Ids |-> IF id = 1 THEN HugeMinimum ELSE PagedOne]
    /\ memfds = << >>
    /\ lock = 0
    /\ pc = [t \in Threads |-> "idle"]
    /\ local = [t \in Threads |-> IdleLocal]
    /\ arcs = << >>
    /\ files = << >>
    /\ returned = {}
    /\ failed = {}
    /\ calls = 0

SpecFair == InitFair /\ [][Next]_vars /\ \A t \in Threads : WF_vars(Progress(t))

(***************************************************************************)
(* The builder specification: one run of build_memfds, by thread 1, on     *)
(* each layout of BuildLayouts.                                            *)
(***************************************************************************)
InitBuild ==
    /\ overflow_checks \in BOOLEAN
    /\ \E module \in BuildLayouts : modules = [id \in Ids |-> module]
    /\ memfds = << >>
    /\ lock = 0
    /\ pc = [t \in Threads |-> IF t = 1 THEN "build_sizes" ELSE "idle"]
    /\ local = [t \in Threads |->
                  IF t = 1 THEN [IdleLocal EXCEPT !.id = 1, !.h = 1] ELSE IdleLocal]
    /\ arcs = << >>
    /\ files = << >>
    /\ returned = {}
    /\ failed = {}
    /\ calls = 1

NextBuild ==
    \/ BuildSizes(1)
    \/ NextMemory(1)
    \/ Create(1)
    \/ SetLen(1)
    \/ Write(1)
    \/ AddSeal(1)
    \/ Store(1)
    \/ Finish(1)

SpecBuild == InitBuild /\ [][NextBuild]_vars

(***************************************************************************)
(* Properties of the registry (specification Spec).                        *)
(***************************************************************************)
\* The positions inside build_memfds, and those at a call of the host.
BuildPcs ==
    {"build_sizes", "next_memory", "create", "set_len", "write",
     "seal_grow", "seal_shrink", "seal_write", "seal_seal", "store"}
OsCallPcs ==
    {"create", "set_len", "write", "seal_grow", "seal_shrink", "seal_write", "seal_seal"}
\* The positions of a call before it reaches the insert of line 69.
BeforeEntryPcs == {"lookup_lock", "lookup", "miss_unlock", "hit_return"} \cup BuildPcs
\* Thread t holds an Ok result.
HoldsOk(t) == local[t].result.some /\ local[t].result.val.ok
\* Thread t holds an Err result.
HoldsErr(t) == local[t].result.some /\ ~local[t].result.val.ok

\* C1: every get_or_create call that returned Ok for an id returned the set
\* the registry stores for that id, however many builds ran for the id.
C1_ReturnsRegistrySet ==
    \A r \in returned : r[1] \in DOMAIN memfds /\ memfds[r[1]] = r[2]

\* C1 witness: two callers hold the result of calls for the same id, and one
\* of them built a set of its own that is not the one it was given.
C1_Witness ==
    \E t, u \in Threads :
        /\ t # u
        /\ pc[t] = "returned" /\ pc[u] = "returned"
        /\ HoldsOk(t) /\ HoldsOk(u)
        /\ local[t].id = local[u].id
        /\ local[t].memfds.some
        /\ local[t].memfds.val # local[t].result.val.h

\* C2: an entry of the registry, once inserted, maps its id to the same set
\* in every later state: no step removes or replaces it.
C2_EntryPersists ==
    [][\A id \in DOMAIN memfds : id \in DOMAIN memfds' /\ memfds'[id] = memfds[id]]_vars

\* C2 witness: the id has an entry and a later call for it, whose own build
\* failed, has returned.
C2_Witness ==
    \E t \in Threads :
        /\ pc[t] = "returned"
        /\ HoldsErr(t)
        /\ local[t].id \in DOMAIN memfds

\* C3: a call whose lookup finds an entry returns that entry, leaves the
\* registry as it is and never enters the builder; the builder is entered
\* only from a lookup, made under the same hold of the lock, that found no
\* entry.
C3_HitSkipsBuilder ==
    [][\A t \in Threads :
          /\ (pc[t] = "lookup" /\ local[t].id \in DOMAIN memfds /\ pc'[t] # pc[t])
                => /\ pc'[t] = "hit_return"
                   /\ local'[t].result = Some(Ok(memfds[local[t].id]))
                   /\ memfds' = memfds
          /\ (pc[t] = "hit_return" /\ pc'[t] # pc[t])
                => /\ pc'[t] = "returned"
                   /\ local'[t].result = Some(Ok(memfds[local[t].id]))
                   /\ ~local'[t].memfds.some
                   /\ memfds' = memfds
          /\ (pc'[t] = "build_sizes" /\ pc[t] # "build_sizes")
                => /\ pc[t] = "miss_unlock"
                   /\ lock = t
                   /\ local[t].id \notin DOMAIN memfds
      ]_vars

\* C3 witness: a call has returned a set without having built one.
C3_Witness ==
    \E t \in Threads :
        pc[t] = "returned" /\ HoldsOk(t) /\ ~local[t].memfds.some

\* C4: no caller holds the registry lock while it is anywhere in build_memfds.
C4_BuilderRunsUnlocked ==
    \A t \in Threads : pc[t] \in BuildPcs => lock # t

\* C4 witness: two callers are inside build_memfds for the same id at once,
\* each with a memfd of its own open, the registry holding no entry for it.
C4_Witness ==
    \E t, u \in Threads :
        /\ t # u
        /\ pc[t] = "write" /\ pc[u] \in {"seal_grow", "seal_shrink", "seal_write", "seal_seal"}
        /\ local[t].id = local[u].id
        /\ local[t].id \notin DOMAIN memfds

\* C5: a call that finds the slot occupied after its build has released the
\* set it built (the Arc is gone and its memfds are closed), does not insert
\* it and returns the occupant; after a call has returned, the set it built
\* is the registry's entry or has been released; and every set a caller holds
\* is live.
C5_LoserReleasesItsSet ==
    \A t \in Threads :
        LET id == local[t].id
            built == local[t].memfds.val
        IN  /\ pc[t] \in {"occupied_clone", "occupied_return"}
                => /\ built \notin DOMAIN arcs
                   /\ FilesOf(built) = {}
                   /\ memfds[id] # built
            /\ pc[t] = "occupied_return"
                => local[t].result = Some(Ok(memfds[id]))
            /\ (pc[t] = "returned" /\ local[t].memfds.some)
                => \/ id \in DOMAIN memfds /\ memfds[id] = built /\ built \in DOMAIN arcs
                   \/ built \notin DOMAIN arcs /\ FilesOf(built) = {}
            /\ HoldsOk(t) => local[t].result.val.h \in DOMAIN arcs

\* C5 witness: a call that lost the race has returned the winner's set.
C5_Witness ==
    \E t \in Threads :
        /\ pc[t] = "returned"
        /\ HoldsOk(t)
        /\ local[t].memfds.some
        /\ local[t].memfds.val \notin DOMAIN arcs
        /\ local[t].result.val.h = memfds[local[t].id]

\* Every image of the set h is finished: its memfd is open, has the image's
\* length and carries the four seals.
SetComplete(id, h) ==
    /\ h \in DOMAIN arcs
    /\ VecLen(arcs[h].memories) = num_defined_memories(modules[id])
    /\ \A dm \in DOMAIN arcs[h].memories :
          LET image == arcs[h].memories[dm]
          IN  image.some =>
                /\ image.val.fd \in DOMAIN files
                /\ files[image.val.fd].len = image.val.len
                /\ files[image.val.fd].seals =
                      {"SealGrow", "SealShrink", "SealWrite", "SealSeal"}

\* C6: a call whose builder fails (a host call in build_memfds does not go
\* on to the next step of the build) returns the error; no step a call takes
\* before its insert changes the registry; the failed build leaves no set
\* and no open memfd behind; and every set the registry holds is complete.
C6_FailureInsertsNothing ==
    [][/\ \A t \in Threads :
            /\ (pc[t] \in OsCallPcs /\ pc'[t] \notin BuildPcs \cup {"panicked"})
                  => /\ pc'[t] = "returned"
                     /\ local'[t].result = Some(Err)
                     /\ memfds' = memfds
                     /\ local[t].h \notin DOMAIN arcs'
                     /\ \A f \in DOMAIN files' : f[1] # local[t].h
            /\ (pc[t] \in BeforeEntryPcs /\ pc'[t] # pc[t]) => memfds' = memfds
       /\ \A id \in DOMAIN memfds' : SetComplete(id, memfds[id])'
      ]_vars

\* C6 witness: a call has returned the error of its failed build, the
\* registry holding no entry for its id and a set under another id.
C6_Witness ==
    \E t \in Threads :
        /\ pc[t] = "returned"
        /\ HoldsErr(t)
        /\ local[t].id \notin DOMAIN memfds
        /\ DOMAIN memfds # {}

(***************************************************************************)
(* Properties of the builder (specification SpecBuild).  The layout is     *)
(* modules[1], the build is thread 1's, and its set, once built, is        *)
(* arcs[1].                                                                *)
(***************************************************************************)
Layout == modules[1]
IsSegmented == Layout.memory_initialization.kind = "Segmented"
DefinedMemories == 0..(num_defined_memories(Layout) - 1)
\* build_memfds has returned Ok.
Built == pc[1] = "entry_lock"
\* The entry of the built set for defined_memory.
Result(defined_memory) == arcs[1].memories[defined_memory]

\* The memory has an initializer that ends above offset 0.
NonzeroRequired(module, defined_memory) == ~ZeroRequired(module, defined_memory)

\* C7 as claimed: the result for a defined memory is None if and only if one
\* of the four conditions holds of it.  It is stated here for the memories
\* the conditions are least in doubt about: those with an initializer that
\* ends above offset 0 and a minimum size that fits in 64 bits.
C7_Original ==
    Built => \A dm \in DefinedMemories :
                (NonzeroRequired(Layout, dm) /\ MinimumFits(Layout, dm)) =>
                    ((Result(dm) = None) <=> Offended(Layout, dm))

\* C7, the part of it that holds: under the Segmented strategy, for a defined
\* memory whose minimum size in bytes fits in 64 bits, the result is None if
\* and only if one of the four conditions holds of it or its required size is
\* zero.
C7_NoneIffExcludedOrEmpty ==
    (Built /\ IsSegmented) =>
        \A dm \in DefinedMemories :
            MinimumFits(Layout, dm) =>
                ((Result(dm) = None)
                    <=> (Offended(Layout, dm) \/ ZeroRequired(Layout, dm)))

\* C7 witness: a finished build of a Segmented layout in which one memory
\* has an image and another is None for the hard cap alone.
C7_Witness ==
    /\ Built /\ IsSegmented
    /\ \E dm, other \in DefinedMemories :
          /\ Result(other).some
          /\ Result(dm) = None
          /\ \E init \in Initializers(Layout, dm) : ExceedsCap(init)
          /\ \A init \in Initializers(Layout, dm) :
                ~IsDynamic(init) /\ ~Overflows(init)
                    /\ ~ExceedsMinimum(init, MinPagesOf(Layout, dm))

\* The segments of the layout, and segment i as an initializer.
Segments == Layout.memory_initialization.segments
InitOf(i) == [dynamic |-> Segments[i].base.some, end |-> SegmentEnd(Segments[i])]
\* Segment i has a constant offset, and offset + length is exactly the
\* minimum size of pages * 65536 bytes, or exactly one byte more.
AtMinimum(i, pages) ==
    /\ ~Segments[i].base.some
    /\ IF InitOf(i).end.carry
       THEN InitOf(i).end.val = Zero /\ pages = MaxPages64
       ELSE EqualsPages(InitOf(i).end.val, pages)
OnePast(i, pages) ==
    /\ ~Segments[i].base.some
    /\ IF InitOf(i).end.carry
       THEN InitOf(i).end.val = W(1) /\ pages = MaxPages64
       ELSE /\ InitOf(i).end.val # Zero
            /\ EqualsPages(Sub(InitOf(i).end.val, W(1)), pages)
\* Segment i is in the image of defined_memory: the memory has an image, and
\* bytes of the segment's data were written to it at the segment's offset.
Included(defined_memory, i) ==
    /\ Result(defined_memory).some
    /\ \E k \in DOMAIN files[Result(defined_memory).val.fd].data :
          LET extent == files[Result(defined_memory).val.fd].data[k]
          IN  /\ extent.base = Segments[i].offset
              /\ extent.start = Segments[i].data.start
\* No segment but i that targets defined_memory meets a condition of exclusion.
OthersFine(defined_memory, i) ==
    \A j \in Targeting(Layout, defined_memory) \ {i} :
        ~Offends(InitOf(j), MinPagesOf(Layout, defined_memory))
\* pages is from 1 to 16384: the minimum size is nonzero and within the cap.
WithinCap(pages) ==
    pages # Zero /\ Le(MulPageSize(pages).val, W(MAX_MEMFD_IMAGE_SIZE))
        /\ ~MulPageSize(pages).overflow

\* C8 as claimed: for every minimum page count, a constant-offset segment that
\* ends exactly at the minimum size M is included in the image, and one that
\* ends at M + 1 makes the memory None.
C8_Original ==
    (Built /\ IsSegmented) =>
        \A dm \in DefinedMemories : \A i \in Targeting(Layout, dm) :
            /\ (AtMinimum(i, MinPagesOf(Layout, dm)) /\ OthersFine(dm, i))
                    => Included(dm, i)
            /\ OnePast(i, MinPagesOf(Layout, dm)) => Result(dm) = None

\* C8 amended: a constant-offset segment that ends at M + 1 makes the memory
\* None for every minimum page count; one that ends exactly at M is included
\* in the image for the page counts from 1 to 16384 (M nonzero and at most
\* 1 GiB), where no other segment of the memory excludes it.
C8_MinimumBoundary ==
    (Built /\ IsSegmented) =>
        \A dm \in DefinedMemories : \A i \in Targeting(Layout, dm) :
            /\ (/\ AtMinimum(i, MinPagesOf(Layout, dm))
                /\ WithinCap(MinPagesOf(Layout, dm))
                /\ OthersFine(dm, i))
                    => Included(dm, i)
            /\ OnePast(i, MinPagesOf(Layout, dm)) => Result(dm) = None

\* C8 witness: a finished build with a segment that ends exactly at the
\* minimum size of 16384 pages, the largest within the cap, and is included.
C8_Witness ==
    /\ Built /\ IsSegmented
    /\ \E dm \in DefinedMemories : \E i \in Targeting(Layout, dm) :
          /\ MinPagesOf(Layout, dm) = W(16384)
          /\ AtMinimum(i, MinPagesOf(Layout, dm))
          /\ Included(dm, i)

\* No initializer of the memory is dynamic, overflows or ends beyond the
\* minimum size: the cap alone decides.
CapAlone(module, defined_memory) ==
    \A init \in Initializers(module, defined_memory) :
        ~IsDynamic(init) /\ ~Overflows(init)
            /\ ~ExceedsMinimum(init, MinPagesOf(module, defined_memory))
\* The required size of the memory is size: the largest end of its
\* initializers.
RequiredSizeIs(module, defined_memory, size) ==
    /\ \E init \in Initializers(module, defined_memory) : init.end.val = size
    /\ \A init \in Initializers(module, defined_memory) : Le(init.end.val, size)

\* C9 as claimed: under either strategy a memory whose required size is
\* exactly 1 GiB has an image, and one whose required size is 1 GiB + 1 byte
\* is None.  It is stated for the memories whose minimum size fits in 64
\* bits and whose initializers meet no other condition of exclusion.
C9_Original ==
    Built =>
        \A dm \in DefinedMemories :
            (CapAlone(Layout, dm) /\ MinimumFits(Layout, dm)) =>
                /\ RequiredSizeIs(Layout, dm, W(MAX_MEMFD_IMAGE_SIZE))
                        => Result(dm).some
                /\ RequiredSizeIs(Layout, dm, W(MAX_MEMFD_IMAGE_SIZE + 1))
                        => Result(dm) = None

\* The layout without segment i.
RemoveSegment(module, i) ==
    [module EXCEPT !.memory_initialization.segments =
        [k \in 0..(VecLen(@) - 2) |-> IF k < i THEN @[k] ELSE @[k + 1]]]
\* The first pass gives defined_memory an image: it is not excluded and its
\* size is not zero.
Imaged(st, defined_memory) ==
    defined_memory \notin st.excluded_memories /\ st.sizes[defined_memory] # Zero
\* The result for defined_memory is one that a build of module, whose first
\* pass ends in st, gives it: the same presence, length and content.
SameAsIn(module, st, defined_memory) ==
    IF ~Imaged(st, defined_memory)
    THEN Result(defined_memory) = None
    ELSE /\ Result(defined_memory).some
         /\ Result(defined_memory).val.len = RoundUpToPage(st.sizes[defined_memory]).val
         /\ LET data == files[Result(defined_memory).val.fd].data
                todo == Writes(module, st, defined_memory)
            IN  /\ DOMAIN data = DOMAIN todo
                /\ \A k \in DOMAIN todo :
                      /\ data[k].base = todo[k].base
                      /\ data[k].start = todo[k].range.start
                      /\ data[k].end - data[k].start
                            \in WriteCounts(todo[k].range.end - todo[k].range.start)

\* C10 as claimed: a segment that meets one of the four conditions makes the
\* build neither fail nor stop; it makes the result of the memory it targets
\* None and leaves the result of every other defined memory as the build of
\* the layout without the segment gives it.  The build of the layout without
\* the segment is its first pass, ComputeSizes; the build calls the host, and
\* so can fail, only for a memory that has an image without the segment.
C10_Original ==
    IsSegmented =>
        \A dm \in DefinedMemories : \A i \in Targeting(Layout, dm) :
            Offends(InitOf(i), MinPagesOf(Layout, dm)) =>
                LET without == RemoveSegment(Layout, i)
                    st == ComputeSizes(without, overflow_checks)
                IN  /\ pc[1] = "panicked" => st.panicked
                    /\ pc[1] \in OsCallPcs =>
                          ~st.panicked /\ local[1].cur # dm /\ Imaged(st, local[1].cur)
                    /\ Built =>
                          /\ ~st.panicked
                          /\ Result(dm) = None
                          /\ \A other \in DefinedMemories \ {dm} :
                                SameAsIn(without, st, other)

\* The memfd behind the image of defined_memory.
FileOf(defined_memory) == files[Result(defined_memory).val.fd]

\* C11: the length of every image of a built set is a multiple of the host
\* page size, is the length of its memfd, is at least base + length of every
\* initializer of its memory, and is the smallest such multiple: less than a
\* page above the highest of them.
C11_LengthIsPageRoundUp ==
    Built =>
        \A dm \in DefinedMemories :
            Result(dm).some =>
                LET len == Result(dm).val.len
                IN  /\ len[1] % page_size = 0
                    /\ FileOf(dm).len = len
                    /\ \A init \in Initializers(Layout, dm) :
                          ~init.dynamic /\ ~init.end.carry /\ Le(init.end.val, len)
                    /\ \E init \in Initializers(Layout, dm) :
                          Lt(len, AddCarry(init.end.val, W(page_size)).val)

\* C11 witness: a built set with an image whose highest initializer does not
\* end on a page boundary, so that the rounding has acted.
C11_Witness ==
    /\ Built
    /\ \E dm \in DefinedMemories :
          /\ Result(dm).some
          /\ \A init \in Initializers(Layout, dm) :
                init.end.val[1] % page_size # 0

\* C12: in a built set a defined memory with no segment targeting it
\* (Segmented) or no page entry (Paged) is None, and every image that is
\* present, and its memfd, has a length greater than zero.
C12_NoZeroLengthImage ==
    Built =>
        \A dm \in DefinedMemories :
            /\ Initializers(Layout, dm) = {} => Result(dm) = None
            /\ Result(dm).some =>
                  Gt(Result(dm).val.len, Zero) /\ Gt(FileOf(dm).len, Zero)

\* C12 witness: a built set in which a memory without initializers is None
\* next to a memory that has an image.
C12_Witness ==
    /\ Built
    /\ \E dm, other \in DefinedMemories :
          /\ Initializers(Layout, dm) = {}
          /\ Result(dm) = None
          /\ Result(other).some

\* The value below 2^32 held by a 64-bit word.
ToInt(a) == a[1] + a[2] * Limb
\* The extent (an entry of a memfd's write log) covers offset off.
Covers(extent, off) ==
    /\ Le(extent.base, off)
    /\ Lt(off, AddCarry(extent.base, W(extent.end - extent.start)).val)
\* The byte read at offset off of a memfd: that of the last write that
\* covers off, and zero where nothing was written.
ReadAt(file, off) ==
    LET covering == {k \in DOMAIN file.data : Covers(file.data[k], off)}
        last == CHOOSE k \in covering : \A j \in covering : j <= k
    IN  IF covering = {} THEN 0
        ELSE DataAt(file.data[last].start + ToInt(Sub(off, file.data[last].base)))
\* The initializers the build writes into the image of defined_memory, each
\* as [base, range].
Written(defined_memory) ==
    IF IsSegmented
    THEN {[base |-> Segments[i].offset, range |-> Segments[i].data] :
            i \in Targeting(Layout, defined_memory)}
    ELSE {Layout.memory_initialization.map[defined_memory][k] :
            k \in DOMAIN Layout.memory_initialization.map[defined_memory]}
\* Two initializers share a byte offset.
Overlap(a, b) ==
    /\ RangeLen(a.range) # Zero /\ RangeLen(b.range) # Zero
    /\ Lt(a.base, AddCarry(b.base, RangeLen(b.range)).val)
    /\ Lt(b.base, AddCarry(a.base, RangeLen(a.range)).val)
\* The positions of an initializer of len bytes that are compared: the
\* first, the middle and the last.
Positions(len) == {i \in {0, len \div 2, len - 1} : 0 <= i /\ i < len}
\* Initializer init reads back from the image of defined_memory.
ReadsBack(defined_memory, init) ==
    \A i \in Positions(init.range.end - init.range.start) :
        ReadAt(FileOf(defined_memory), AddCarry(init.base, W(i)).val)
            = DataAt(init.range.start + i)

\* C13 as claimed: every byte of every initializer written into an image is
\* read back unchanged at base + i from the sealed image.  It is stated for
\* the initializers that share no byte offset with another initializer of
\* the same memory.
C13_Original ==
    Built =>
        \A dm \in DefinedMemories :
            Result(dm).some =>
                \A init \in Written(dm) :
                    (\A other \in Written(dm) \ {init} : ~Overlap(init, other))
                        => ReadsBack(dm, init)

\* The built set has exactly one entry per defined memory, in
\* DefinedMemoryIndex order: entry dm is None or the image made for defined
\* memory dm, written from that memory's initializers only.
OneEntryPerDefinedMemory ==
    /\ DOMAIN arcs[1].memories = DefinedMemories
    /\ \A dm \in DefinedMemories :
          Result(dm).some =>
              /\ Result(dm).val.fd = <<1, dm>>
              /\ \A k \in DOMAIN FileOf(dm).data :
                    \E init \in Written(dm) :
                        /\ FileOf(dm).data[k].base = init.base
                        /\ FileOf(dm).data[k].start = init.range.start
\* Every defined memory of the layout is excluded: a condition of exclusion
\* holds of each (none, where there is no defined memory).
AllExcluded == \A dm \in DefinedMemories : Offended(Layout, dm)

\* C14 as claimed: a successful build returns one entry per defined memory in
\* index order, and a module with no defined memory or with every memory
\* excluded is not an error: its build ends in a set that is empty or all
\* None.  The second part is stated for Segmented layouts.
C14_Original ==
    /\ Built => OneEntryPerDefinedMemory
    /\ (IsSegmented /\ AllExcluded) =>
          /\ pc[1] \notin {"returned", "panicked"}
          /\ Built => \A dm \in DefinedMemories : Result(dm) = None

\* C14, the part of it that holds: a successful build returns one entry per
\* defined memory in index order; the build of a Segmented layout with no
\* defined memory or with every memory excluded never returns an error, and
\* where it completes its set is empty or all None.
C14_OneEntryPerDefinedMemory ==
    /\ Built => OneEntryPerDefinedMemory
    /\ (IsSegmented /\ AllExcluded) =>
          /\ ~HoldsErr(1)
          /\ Built => \A dm \in DefinedMemories : Result(dm) = None

\* C14 witness: a built set of two entries, one None for an excluded memory
\* and one an image.
C14_Witness ==
    /\ Built
    /\ \E dm, other \in DefinedMemories :
          /\ Offended(Layout, dm)
          /\ Result(dm) = None
          /\ Result(other).some

\* C14, second witness: a module with no defined memory has built an empty
\* set.
C14_WitnessEmpty == Built /\ DefinedMemories = {} /\ DOMAIN arcs[1].memories = {}

\* The initializers of defined_memory in layout order: its segments by
\* ascending index, or its page entries.
InOrder(defined_memory) ==
    IF IsSegmented
    THEN LET T == Targeting(Layout, defined_memory)
             v == CHOOSE f \in [0..(Cardinality(T) - 1) -> T] :
                    \A a, b \in 0..(Cardinality(T) - 1) : a < b => f[a] < f[b]
         IN  [k \in 0..(Cardinality(T) - 1) |->
                [base |-> Segments[v[k]].offset, range |-> Segments[v[k]].data]]
    ELSE Layout.memory_initialization.map[defined_memory]
\* No two initializers of defined_memory share a byte offset.
Disjoint(defined_memory) ==
    \A a, b \in DOMAIN InOrder(defined_memory) :
        a # b => ~Overlap(InOrder(defined_memory)[a], InOrder(defined_memory)[b])
\* The orders in which the writes of a log can be made.
Orders(file) ==
    {f \in [DOMAIN file.data -> DOMAIN file.data] :
        \A a, b \in DOMAIN file.data : a # b => f[a] # f[b]}
\* The byte at off had the writes of the log been made in the given order.
ReadAtIn(file, order, off) ==
    LET covering == {p \in DOMAIN file.data : Covers(file.data[order[p]], off)}
        last == CHOOSE p \in covering : \A q \in covering : q <= p
    IN  IF covering = {} THEN 0
        ELSE DataAt(file.data[order[last]].start
                        + ToInt(Sub(off, file.data[order[last]].base)))
\* The offsets compared: the first, middle and last byte of each initializer.
Offsets(defined_memory) ==
    UNION {{AddCarry(init.base, W(i)).val :
                i \in Positions(init.range.end - init.range.start)} :
            init \in Written(defined_memory)}
\* The content of the image does not depend on the order of its writes.
OrderImmaterial(defined_memory) ==
    \A order \in Orders(FileOf(defined_memory)) :
        \A off \in Offsets(defined_memory) :
            ReadAtIn(FileOf(defined_memory), order, off)
                = ReadAt(FileOf(defined_memory), off)
\* The writes into the image were made in layout order.
WrittenInOrder(defined_memory) ==
    /\ DOMAIN FileOf(defined_memory).data = DOMAIN InOrder(defined_memory)
    /\ \A k \in DOMAIN InOrder(defined_memory) :
          /\ FileOf(defined_memory).data[k].base = InOrder(defined_memory)[k].base
          /\ FileOf(defined_memory).data[k].start
                = InOrder(defined_memory)[k].range.start

\* C16 as claimed: the writes into every image target pairwise disjoint
\* ranges, and the content is the same for every order of the writes.
C16_Original ==
    Built =>
        \A dm \in DefinedMemories :
            Result(dm).some => Disjoint(dm) /\ OrderImmaterial(dm)

\* C16 amended: the writes into an image are made in layout order (segments
\* by ascending index, page entries as listed), and where they target
\* pairwise disjoint ranges the content is the same for every order.
C16_OrderImmaterialWhenDisjoint ==
    Built =>
        \A dm \in DefinedMemories :
            Result(dm).some =>
                /\ WrittenInOrder(dm)
                /\ Disjoint(dm) => OrderImmaterial(dm)

\* C16 witness: an image written from two initializers with data, on
\* disjoint ranges.
C16_Witness ==
    /\ Built
    /\ \E dm \in DefinedMemories :
          /\ Result(dm).some
          /\ Disjoint(dm)
          /\ \E a, b \in DOMAIN FileOf(dm).data :
                /\ a # b
                /\ FileOf(dm).data[a].end > FileOf(dm).data[a].start
                /\ FileOf(dm).data[b].end > FileOf(dm).data[b].start

(***************************************************************************)
(* Further properties of the registry (specification Spec).                *)
(***************************************************************************)
\* The positions at which a caller holding the lock does the lookup with its
\* clone (lines 60-61, 76) or the insert (lines 69-72), or is about to
\* release the lock.
MapWorkPcs ==
    {"lookup", "hit_return", "miss_unlock", "entry", "vacant_return",
     "occupied_clone", "occupied_return"}

\* C15 as claimed: a caller that holds the lock is doing only the lookup, the
\* clone of the found reference or the insert; in particular it is not at
\* line 75, about to release the set it has just built.
C15_Original == \A t \in Threads : lock = t => pc[t] \in MapWorkPcs

\* The restrictions on a memfd after 0, 1, 2, 3 and 4 calls of add_seal in
\* the order of lines 186-189.
SealStages ==
    <<{}, {"SealGrow"}, {"SealGrow", "SealShrink"},
      {"SealGrow", "SealShrink", "SealWrite"},
      {"SealGrow", "SealShrink", "SealWrite", "SealSeal"}>>
Sealed(file) == file.seals = SealStages[5]
\* The images that are part of a ModuleMemFds.
ImagesInSets ==
    UNION {{arcs[h].memories[dm].val.fd :
                dm \in {d \in DOMAIN arcs[h].memories : arcs[h].memories[d].some}} :
            h \in DOMAIN arcs}
\* One step keeps the order create, resize, writes, seals for the memfd f.
StepInOrder(f) ==
    IF f \notin DOMAIN files
    THEN files'[f] = [len |-> Zero, data |-> << >>, seals |-> {}]
    ELSE /\ files'[f].len # files[f].len =>
                files[f].data = << >> /\ files[f].seals = {}
         /\ files'[f].data # files[f].data =>
                /\ files[f].seals = {} /\ files[f].len # Zero
                /\ files'[f].len = files[f].len
         /\ files'[f].seals # files[f].seals =>
                /\ files'[f].data = files[f].data /\ files'[f].len = files[f].len
                /\ \E n \in 1..4 :
                      files[f].seals = SealStages[n] /\ files'[f].seals = SealStages[n + 1]
                /\ \E t \in Threads :
                      /\ local[t].h = f[1] /\ pc[t] \in OsCallPcs
                      /\ VecLen(files[f].data)
                            = VecLen(Writes(modules[local[t].id], local[t].st.val, f[2]))
         /\ Sealed(files[f]) => files'[f] = files[f]

\* C17: every step on a memfd keeps the order resize, then all the writes,
\* then SealGrow, SealShrink, SealWrite, SealSeal: the length changes only
\* before any write or seal, the data only after the resize and before any
\* seal, the first seal comes when every recorded write is made, and a fully
\* sealed memfd never changes; and an image is part of a set, and so of the
\* registry, only when its memfd is fully sealed.
C17_SealedBeforeShared ==
    /\ [](\A f \in ImagesInSets : f \in DOMAIN files /\ Sealed(files[f]))
    /\ [][\A f \in DOMAIN files' : StepInOrder(f)]_vars

\* C17 witness: the registry holds a set with an image that was written
\* twice before it was sealed.
C17_Witness ==
    \E id \in DOMAIN memfds : \E dm \in DOMAIN arcs[memfds[id]].memories :
        /\ arcs[memfds[id]].memories[dm].some
        /\ Sealed(files[arcs[memfds[id]].memories[dm].val.fd])
        /\ VecLen(files[arcs[memfds[id]].memories[dm].val.fd].data) = 2

\* Segment i of the layout targets an imported memory.
TargetsImported(i) == Segments[i].memory_index < Layout.num_imported_memories

\* C18: a segment that targets an imported memory is skipped, whatever its
\* base, offset and length: the first pass ends as it does on the layout
\* without the segment (the same sizes, excluded memories, recorded writes,
\* and a panic only where there is one without it), and a finished build
\* gives every defined memory the result it has without the segment.
C18_ImportedSegmentsSkipped ==
    IsSegmented =>
        \A i \in DOMAIN Segments :
            TargetsImported(i) =>
                LET without == RemoveSegment(Layout, i)
                    st == ComputeSizes(without, overflow_checks)
                    full == ComputeSizes(Layout, overflow_checks)
                IN  /\ full.panicked = st.panicked
                    /\ full.sizes = st.sizes
                    /\ full.excluded_memories = st.excluded_memories
                    /\ \A dm \in DefinedMemories :
                          Writes(Layout, full, dm) = Writes(without, st, dm)
                    /\ pc[1] = "panicked" => st.panicked
                    /\ Built => \A dm \in DefinedMemories : SameAsIn(without, st, dm)

\* C18 witness: a finished build with an image, of a layout that has a
\* segment of an imported memory with a dynamic base or an overflowing
\* offset + length.
C18_Witness ==
    /\ Built /\ IsSegmented
    /\ \E dm \in DefinedMemories : Result(dm).some
    /\ \E i \in DOMAIN Segments :
          /\ TargetsImported(i)
          /\ Segments[i].base.some \/ SegmentEnd(Segments[i]).carry

\* Thread t is inside a call of get_or_create.
InCall(t) == pc[t] \in (BeforeEntryPcs \cup MapWorkPcs \cup {"entry_lock", "occupied_drop"})

\* C19 as claimed: under fair scheduling every call of get_or_create
\* eventually returns, with a set or with an error.
C19_Original == \A t \in Threads : InCall(t) ~> (pc[t] = "returned")

\* C19, the part of it that holds: under fair scheduling every call
\* eventually returns or has panicked; no caller waits forever for the lock
\* or for another caller's build.
C19_ReturnsOrPanics ==
    \A t \in Threads : InCall(t) ~> (pc[t] \in {"returned", "panicked"})

\* C19 witness: two callers of the same id have both returned, one of them
\* with a set.
C19_Witness ==
    \E t, u \in Threads :
        /\ t # u
        /\ pc[t] = "returned" /\ HoldsOk(t)
        /\ pc[u] = "returned"
        /\ local[t].id = local[u].id

\* The call of thread t began after a call for the same id had returned Err.
FailedBefore(t) == \E f \in failed : f[1] = local[t].id /\ f[2] < local[t].h

\* C20: a call whose build fails returns the error in that very step, from
\* inside build_memfds, without taking the lock or touching the registry,
\* whether or not the id has an entry by then; and the failure is not cached:
\* a call begun after a failure for its id that finds no entry at the lookup
\* goes on to build_memfds.
C20_FailureNotCached ==
    [][\A t \in Threads :
          /\ (HoldsErr(t)' /\ ~HoldsErr(t)) =>
                /\ pc[t] \in OsCallPcs /\ pc'[t] = "returned"
                /\ lock # t /\ lock' = lock /\ memfds' = memfds
          /\ (/\ FailedBefore(t) /\ local[t].id \notin DOMAIN memfds
              /\ pc[t] \in {"lookup", "miss_unlock"} /\ pc'[t] # pc[t]) =>
                pc'[t] = (IF pc[t] = "lookup" THEN "miss_unlock" ELSE "build_sizes")
      ]_vars

\* C20 witness: a call begun after a failure for its id is inside
\* build_memfds, calling the host, with no entry for the id.
C20_Witness ==
    \E t \in Threads :
        /\ FailedBefore(t)
        /\ local[t].id \notin DOMAIN memfds
        /\ pc[t] \in OsCallPcs

\* C20, second witness: a call has returned an error for an id that has an
\* entry, inserted by another caller.
C20_WitnessEntryPresent ==
    \E t \in Threads :
        pc[t] = "returned" /\ HoldsErr(t) /\ local[t].id \in DOMAIN memfds

=============================================================================
